---- MODULE Spec2Model ----
(***************************************************************************)
(* Noteworthy: the TagList registry (src/src/session/tag_list.rs).         *)
(*                                                                         *)
(* A TagList keeps two insertion-ordered sets: `list`, an IndexSet of Tag  *)
(* objects (hashed and compared by object identity), and `name_list`, an   *)
(* IndexSet of the tags' names.  It is a gio::ListModel: every change is   *)
(* announced with items_changed(position, removed, added).                 *)
(*                                                                         *)
(* Several statements of the source are wrapped in debug_assert!, whose    *)
(* argument is evaluated only when the crate is built with debug           *)
(* assertions; `debug_assertions` is the build the process runs.           *)
(*                                                                         *)
(* The second part is the NoteManager (src/src/session/note_manager.rs):   *)
(* for_directory and load at startup, then create_note, delete_note and    *)
(* save_note on the loaded manager.                                        *)
(***************************************************************************)
EXTENDS Integers, Sequences, FiniteSets, TLC

\* ---------------------------------------------------------------- bounds
NumTags == 2
NumNames == 2
MaxHandlers == 3
MaxDataLen == 2
MaxTick == 1
MaxBody == 1
TicksPerSecond == 2
MaxTitle == 1
MaxLines == 2
MaxDate == 1
MaxSegments == 2
MaxCalls == 2
MaxRuns == 1

\* ------------------------------------------------------------- constants
EmptyName == 0
\* u32::MAX is 4294967295; TLC's integers end at 2147483647, which stands
\* for it: both lie beyond every length a list of the model reaches
U32_MAX == 2147483647

Tags == 1..NumTags
Names == 1..NumNames
NamesE == Names \cup {EmptyName}
NoTag == 0
NoName == -1

\* results of an operation: Ok(()), the anyhow messages, or a panic
Ok == "Ok"
NoResult == "none"
Panic == "panic"
ErrEmptyName == "Tag name cannot be empty"
ErrAppendExisting == "Cannot append exisiting tag name"
ErrRemoveName == "Cannot remove tag name that doesnt exist"
ErrRemoveTag == "Cannot remove tag that doesnt exist"
ErrRenameExisting == "Cannot rename a tag that already exist"

\* the spec's error taxonomy, by the message the code bails with
IsDuplicateKey(r) == r \in {ErrAppendExisting, ErrRenameExisting}
IsInvalidKey(r) == r = ErrEmptyName
IsNotFound(r) == r \in {ErrRemoveName, ErrRemoveTag}

VARIABLES
    debug_assertions,   \* cfg!(debug_assertions) of the build
    name,               \* Tag -> its name property
    handlers,           \* Tag -> number of name-notify closures this list connected
    list,               \* imp::TagList::list
    name_list,          \* imp::TagList::name_list
    result,             \* what the last call returned
    op,                 \* the last call: kind, tag, name argument
    prev,               \* list, name_list and name when the last call started
    emitted,            \* items_changed events of the last call, in order
    observed,           \* what a handler of each of those events could read
    mirror              \* a consumer's copy, kept only by replaying the events

\* ------------------------------------------------------------ NoteManager
VARIABLES
    remote_reachable,   \* the remote answers
    dir_is_repo,        \* the directory holds a repository
    data_file,          \* data.nwty: absent, unreadable, unparsable, or its tag_list
    disk,               \* file stem -> content of <stem>.md, or Absent
    manager,            \* "unbound" until for_directory returned a NoteManager
    tag_registry,       \* imp::NoteManager::tag_list (OnceCell)
    note_registry,      \* imp::NoteManager::note_list (OnceCell)
    note,               \* file stem -> the Note object of that file, or NoNote
    load_pc,            \* where load() is between its awaits
    load_todo,          \* directory entries load_notes has still to visit
    load_acc,           \* the NoteList load_notes is filling
    clock,              \* chrono::Local::now()
    saving,             \* file stem -> bytes of a write save_note awaits, or Absent
    m_op,               \* the last NoteManager call
    m_result,           \* what it returned
    m_prev              \* note_registry, disk and note when it started

\* ------------------------------------------------------------------- Note
VARIABLES
    metadata,           \* imp::Note::metadata (OnceCell): title, last_modified, is_pinned
    content,            \* imp::Note::content (OnceCell): the lines of the buffer's text
    is_saved,           \* the note's is_saved()
    date_now,           \* Date::now()
    file_content,       \* the lines of the note's file, or Absent
    n_op,               \* the last call on the note
    n_result            \* what it returned

\* ------------------------------------------------------------- Repository
VARIABLES
    remote_url,         \* the remote_url a clone is asked for
    calls,              \* call -> the run_async of that call: operation, progress, results
    r_op                \* the last step of a Repository call

\* ---------------------------------------------------------------- Sidebar
VARIABLES
    sidebar             \* the notes handed to the sorter and what it said of each pair

note_vars == <<metadata, content, is_saved, date_now, file_content, n_op,
               n_result>>

repository_vars == <<remote_url, calls, r_op>>

manager_vars == <<remote_reachable, dir_is_repo, data_file, disk, manager,
                  tag_registry, note_registry, note, load_pc, load_todo,
                  load_acc, clock, saving, m_op, m_result, m_prev>>

taglist_vars == <<name, handlers, list, name_list, result, op, prev,
                  emitted, observed, mirror>>

vars == <<debug_assertions, name, handlers, list, name_list, result, op, prev,
          emitted, observed, mirror, manager_vars, note_vars, repository_vars,
          sidebar>>

\* an empty OnceCell or Option is the empty sequence, a full one <<value>>
Unset == <<>>
Absent == <<>>
NoNote == <<>>
NoId == <<>>
Some(x) == <<x>>

\* data.nwty: missing, unreadable, not YAML, or YAML with a tag_list key
DataFile(kind, names) == [kind |-> kind, tag_list |-> names]
MissingDataFile == DataFile("missing", <<>>)
Unreadable == DataFile("unreadable", <<>>)
Unparsable == DataFile("unparsable", <<>>)
DataYaml(names) == DataFile("yaml", names)

ManagerCall(kind, id, io_ok) == [kind |-> kind, id |-> id, io_ok |-> io_ok]

\* no NoteManager exists
\* no Note is under consideration
NoNoteObject ==
    /\ metadata = <<>>
    /\ content = <<>>
    /\ is_saved = FALSE
    /\ date_now = 0
    /\ file_content = <<>>
    /\ n_op = [kind |-> "none"]
    /\ n_result = NoResult

\* no Repository call is under consideration
\* no Sidebar has been given a note list
NoSidebar == sidebar = <<>>

NoRepository ==
    /\ remote_url = <<>>
    /\ calls = <<>>
    /\ r_op = [kind |-> "none"]

NoManager ==
    /\ remote_reachable = FALSE
    /\ dir_is_repo = FALSE
    /\ data_file = MissingDataFile
    /\ disk = <<>>
    /\ manager = "unbound"
    /\ tag_registry = Unset
    /\ note_registry = Unset
    /\ note = <<>>
    /\ load_pc = "idle"
    /\ load_todo = <<>>
    /\ load_acc = <<>>
    /\ clock = 0
    /\ saving = <<>>
    /\ m_op = ManagerCall("none", NoId, TRUE)
    /\ m_result = NoResult
    /\ m_prev = <<>>

\* ------------------------------------------------------ IndexSet helpers
Range(s) == {s[i] : i \in 1..Len(s)}

\* IndexSet::get_index_of, 1-based; 0 when absent
IndexOf(s, x) ==
    IF x \in Range(s) THEN CHOOSE i \in 1..Len(s) : s[i] = x ELSE 0

\* IndexSet::insert: push at the end unless already present
Insert(s, x) == IF x \in Range(s) THEN s ELSE Append(s, x)

\* IndexSet::shift_remove: later elements move down by one
ShiftRemove(s, x) ==
    LET i == IndexOf(s, x)
    IN  IF i = 0 THEN s
        ELSE [j \in 1..(Len(s) - 1) |-> IF j < i THEN s[j] ELSE s[j + 1]]

\* IndexSet::swap_remove: the last element takes the removed one's place
SwapRemove(s, x) ==
    LET i == IndexOf(s, x)
    IN  IF i = 0 THEN s
        ELSE [j \in 1..(Len(s) - 1) |-> IF j = i THEN s[Len(s)] ELSE s[j]]

\* ------------------------------------------------------------- ListModel
n_items(l) == Len(l)

\* `n - 1` on u32 in a build without overflow checks
WrappingDecrement(n) == IF n = 0 THEN U32_MAX ELSE n - 1

\* item(position): 0-based position, NoTag when out of range
item(l, position) ==
    IF position < Len(l) THEN l[position + 1] ELSE NoTag

contains_with_name(nl, nm) == nm \in Range(nl)

get_index_of(l, t) == IndexOf(l, t)

get_with_name(nl, l, nm) ==
    LET index == IndexOf(nl, nm)
    IN  IF index = 0 THEN NoTag
        ELSE IF index \in 1..Len(l) THEN l[index] ELSE NoTag

Event(position, removed, added) ==
    [position |-> position, removed |-> removed, added |-> added]

\* what a handler of items_changed reads at `position` while it runs
Observation(nl, l, nm, position) ==
    [index_name |-> IF position < Len(nl) THEN nl[position + 1] ELSE NoName,
     item_name  |-> IF item(l, position) = NoTag THEN NoName
                    ELSE nm[item(l, position)]]

\* a consumer applies one event to its copy, reading the added items
\* from the model with item(position)
Replay(m, ev, l) ==
    LET p == IF ev.position < Len(m) THEN ev.position ELSE Len(m)
        q == IF p + ev.removed < Len(m) THEN p + ev.removed ELSE Len(m)
    IN  SubSeq(m, 1, p)
          \o [k \in 1..ev.added |-> item(l, ev.position + (k - 1))]
          \o SubSeq(m, q + 1, Len(m))

RECURSIVE ReplayAll(_, _, _)
ReplayAll(m, evs, l) ==
    IF evs = <<>> THEN m
    ELSE ReplayAll(Replay(m, Head(evs), l), Tail(evs), l)

Snapshot == [list |-> list, name_list |-> name_list, name |-> name]

Call(kind, t, nm) == [kind |-> kind, tag |-> t, arg |-> nm]

\* ------------------------------------------------------------------ Init
\* the Tag objects exist, made by Tag::new with any names; the list is new
Init ==
    /\ debug_assertions \in BOOLEAN
    /\ name \in [Tags -> NamesE]
    /\ handlers = [t \in Tags |-> 0]
    /\ list = <<>>
    /\ name_list = <<>>
    /\ result = NoResult
    /\ op = Call("new", NoTag, NoName)
    /\ prev = [list |-> <<>>, name_list |-> <<>>, name |-> name]
    /\ emitted = <<>>
    /\ observed = <<>>
    /\ mirror = <<>>
    /\ NoManager
    /\ NoNoteObject
    /\ NoRepository
    /\ NoSidebar

\* a call that returns or panics having emitted events evs
Finish(r, evs, obs) ==
    /\ result' = r
    /\ emitted' = evs
    /\ observed' = obs
    /\ mirror' = ReplayAll(mirror, evs, list')

\* ---------------------------------------------------------------- append
\* closures connected so far by tag.connect_name_notify, over all tags; none
\* is ever disconnected
RECURSIVE SumUpTo(_, _)
SumUpTo(h, n) == IF n = 0 THEN 0 ELSE h[n] + SumUpTo(h, n - 1)

ConnectedHandlers(h) == SumUpTo(h, NumTags)

\* list.insert(tag) is the argument of a debug_assert!
AppendList(l, t) == IF debug_assertions THEN Insert(l, t) ELSE l

append(t) ==
    /\ result # Panic
    /\ (name[t] # EmptyName /\ ~contains_with_name(name_list, name[t]))
          => ConnectedHandlers(handlers) < MaxHandlers
    /\ op' = Call("append", t, name[t])
    /\ prev' = Snapshot
    /\ UNCHANGED <<debug_assertions, sidebar, note_vars, repository_vars, name, manager_vars>>
    /\ IF name[t] = EmptyName
         THEN /\ UNCHANGED <<list, name_list, handlers>>
              /\ Finish(ErrEmptyName, <<>>, <<>>)
       ELSE IF contains_with_name(name_list, name[t])
         THEN /\ UNCHANGED <<list, name_list, handlers>>
              /\ Finish(ErrAppendExisting, <<>>, <<>>)
       ELSE /\ name_list' = Insert(name_list, name[t])
            /\ handlers' = [handlers EXCEPT ![t] = @ + 1]
            /\ list' = AppendList(list, t)
            /\ IF debug_assertions /\ t \in Range(list)
                 THEN Finish(Panic, <<>>, <<>>)
                 ELSE LET position == WrappingDecrement(n_items(list'))
                      IN  Finish(Ok, <<Event(position, 0, 1)>>,
                                 <<Observation(name_list', list', name, position)>>)

\* ---------------------------------------------------------------- remove
remove(t) ==
    /\ result # Panic
    /\ op' = Call("remove", t, name[t])
    /\ prev' = Snapshot
    /\ UNCHANGED <<debug_assertions, sidebar, note_vars, repository_vars, name, handlers, manager_vars>>
    /\ IF ~contains_with_name(name_list, name[t])
         THEN /\ UNCHANGED <<list, name_list>>
              /\ Finish(ErrRemoveName, <<>>, <<>>)
       ELSE /\ name_list' = ShiftRemove(name_list, name[t])
            /\ list' = ShiftRemove(list, t)
            /\ IF get_index_of(list, t) # 0
                 THEN LET position == get_index_of(list, t) - 1
                      IN  Finish(Ok, <<Event(position, 1, 0)>>,
                                 <<Observation(name_list', list', name, position)>>)
                 ELSE Finish(ErrRemoveTag, <<>>, <<>>)

\* ------------------------------------------------------------ rename_tag
\* Tag::set_name: stores the name and notifies "name" once
set_name(nm, t, new) == [nm EXCEPT ![t] = new]

\* the block of debug_assert!s that moves the new name into the old one's
\* slot of name_list; each argument runs only in a build with debug
\* assertions
RenameInserted(nl, new) == IF debug_assertions THEN Insert(nl, new) ELSE nl

RenameSwapped(nl, previous_name) ==
    IF debug_assertions THEN SwapRemove(nl, previous_name) ELSE nl

\* the name-notify closures connected by append, run by set_name: each one
\* emits items_changed(position, 1, 1) if the tag is in the list
NotifyEvents(l, t, count) ==
    IF get_index_of(l, t) = 0 THEN <<>>
    ELSE [k \in 1..count |-> Event(get_index_of(l, t) - 1, 1, 1)]

\* set_name called before the block that rewrites name_list
NameListAtNotify_SetNameFirst(before, after) == before

\* name_list as the closures run by set_name find it: the block that
\* rewrites name_list has run, and released its borrow, before set_name
NameListAtNotify(before, after) == after

rename_tag(t, new) ==
    /\ result # Panic
    /\ op' = Call("rename_tag", t, new)
    /\ prev' = Snapshot
    /\ UNCHANGED <<debug_assertions, sidebar, note_vars, repository_vars, handlers, list, manager_vars>>
    /\ IF contains_with_name(name_list, new)
         THEN /\ UNCHANGED <<name, name_list>>
              /\ Finish(ErrRenameExisting, <<>>, <<>>)
       ELSE IF new = EmptyName
         THEN /\ UNCHANGED <<name, name_list>>
              /\ Finish(ErrEmptyName, <<>>, <<>>)
       ELSE IF get_index_of(list, t) = 0
         THEN \* get_index_of(tag).unwrap()
              /\ UNCHANGED <<name, name_list>>
              /\ Finish(Panic, <<>>, <<>>)
       ELSE LET previous_name == name[t]
                editing_tag_index == get_index_of(list, t)
                inserted == RenameInserted(name_list, new)
                swapped == RenameSwapped(inserted, previous_name)
            IN  IF debug_assertions
                   /\ ~contains_with_name(inserted, previous_name)
                  THEN \* debug_assert!(name_list.swap_remove(&previous_name))
                       /\ name_list' = inserted
                       /\ UNCHANGED name
                       /\ Finish(Panic, <<>>, <<>>)
                ELSE IF debug_assertions
                        /\ ~(editing_tag_index \in 1..Len(swapped)
                             /\ swapped[editing_tag_index] = new)
                  THEN \* debug_assert_eq!(name_list.get_index(..), Some(name))
                       /\ name_list' = swapped
                       /\ UNCHANGED name
                       /\ Finish(Panic, <<>>, <<>>)
                ELSE /\ name_list' = swapped
                     /\ name' = set_name(name, t, new)
                     /\ LET evs == NotifyEvents(list, t, handlers[t])
                        IN  Finish(Ok, evs,
                                   [k \in 1..Len(evs) |->
                                      Observation(
                                        NameListAtNotify(name_list, swapped),
                                        list, name', evs[k].position)])

\* ------------------------------------------------------------------ Next
Next ==
    \/ \E t \in Tags : append(t)
    \/ \E t \in Tags : remove(t)
    \/ \E t \in Tags, new \in NamesE : rename_tag(t, new)

Spec == Init /\ [][Next]_vars

TypeOK ==
    /\ debug_assertions \in BOOLEAN
    /\ name \in [Tags -> NamesE]
    /\ handlers \in [Tags -> 0..MaxHandlers]
    /\ Range(list) \subseteq Tags
    /\ Range(name_list) \subseteq Names
    /\ result \in {NoResult, Ok, Panic, ErrEmptyName, ErrAppendExisting,
                   ErrRemoveName, ErrRemoveTag, ErrRenameExisting}

\* =================================================================
\* NoteManager: startup
\* =================================================================
\* the bytes of a note file: the front matter, the separator line, the body
NoteBytes(title, body) == [kind |-> "note", title |-> title, body |-> body]

\* bytes Note::deserialize cannot read
Corrupt == [kind |-> "corrupt", title |-> 0, body |-> 0]

ErrDeserialize == "Note::deserialize failed"
ErrDataFile == "load_data_file failed"

\* generate_unique_file_name: the clock reading formatted with
\* "Noteworthy-%Y-%m-%d-%H-%M-%S-%f"; the fields down to %S, then %f, the
\* fraction of the second
generate_unique_file_name(now) ==
    <<now \div TicksPerSecond, now % TicksPerSecond>>

\* the file stems, which are the note ids
Ids == {generate_unique_file_name(t) : t \in 0..MaxTick}

\* sequences of at most n elements of S
SeqUpTo(S, n) == UNION {[1..k -> S] : k \in 0..n}

Bodies == 0..MaxBody
EmptyText == 0

ValidDataFiles == {DataYaml(names) : names \in SeqUpTo(NamesE, MaxDataLen)}

\* ------------------------------------------------- Deserialize for TagList
\* tag_list.append(Tag::new(name)) on the list being built; the tag made for
\* entry i of the file is object i, and an Err is logged and skipped
DeserializeAppend(tl, i, nm) ==
    IF nm = EmptyName THEN tl
    ELSE IF contains_with_name(tl.name_list, nm) THEN tl
    ELSE [tl EXCEPT !.name_list = Insert(tl.name_list, nm),
                    !.list = AppendList(tl.list, i)]

RECURSIVE DeserializeFrom(_, _, _)
DeserializeFrom(tl, names, i) ==
    IF i > Len(names) THEN tl
    ELSE DeserializeFrom(DeserializeAppend(tl, i, names[i]), names, i + 1)

\* TagList::new, then one append per entry; `name` is the name of each tag
NewTagList(names) == [list |-> <<>>, name_list |-> <<>>, name |-> names]

DeserializeTagList(names) == DeserializeFrom(NewTagList(names), names, 1)

\* Data::default()
DefaultData == NewTagList(<<>>)

\* serde_yaml's error handed on with `?` instead of unwrap_or_default()
ReadDataFile_PropagateParseError(file) ==
    IF file \in {MissingDataFile, Unreadable}
      THEN [result |-> Ok, data |-> DefaultData]
    ELSE IF file = Unparsable THEN [result |-> ErrDataFile, data |-> DefaultData]
    ELSE [result |-> Ok, data |-> DeserializeTagList(file.tag_list)]

\* what load_data_file makes of the file: load_contents fails on a missing
\* or unreadable file and serde_yaml on an unparsable one; both give
\* Data::default() and no error
ReadDataFile(file) ==
    IF file \in {MissingDataFile, Unreadable}
      THEN [result |-> Ok, data |-> DefaultData]
    ELSE IF file = Unparsable THEN [result |-> Ok, data |-> DefaultData]
    ELSE [result |-> Ok, data |-> DeserializeTagList(file.tag_list)]

\* ------------------------------------------------------------------ load
\* load_notes awaited before load_data_file
LoadOrder_NotesFirst == <<"load_notes", "load_data_file">>

\* load(): load_data_file().await?, then load_notes().await?
LoadOrder == <<"load_data_file", "load_notes">>

AfterStep(step) == IF step = LoadOrder[1] THEN LoadOrder[2] ELSE "return"

\* a step of load() is over: go on to the next one, or return Ok(())
LoadAdvance(step) ==
    IF AfterStep(step) = "return"
      THEN load_pc' = "idle" /\ m_result' = Ok
      ELSE load_pc' = AfterStep(step) /\ m_result' = m_result

\* a step of load() returned Err or panicked: load() is over
LoadFail(r) == load_pc' = "idle" /\ m_result' = r

ManagerSnapshot ==
    [note_registry |-> note_registry, tag_registry |-> tag_registry,
     disk |-> disk, note |-> note, saving |-> saving]

\* ---------------------------------------------------------- for_directory
\* the directory holds neither a repository nor a file
DirectoryEmpty ==
    /\ ~dir_is_repo
    /\ data_file = MissingDataFile
    /\ \A i \in Ids : disk[i] = Absent

\* NoteRepository::clone needs the remote and an empty directory, and may
\* fail all the same
CloneOutcomes == IF remote_reachable /\ DirectoryEmpty THEN BOOLEAN ELSE {FALSE}

\* NoteRepository::open fails on a directory without a repository
OpenOutcome == dir_is_repo

\* NoteRepository::update fetches and merges: it needs the remote too
UpdateOutcomes == IF remote_reachable THEN BOOLEAN ELSE {FALSE}

for_directory(clone_ok, update_ok) ==
    /\ manager = "unbound"
    /\ m_result # Panic
    /\ clone_ok \in CloneOutcomes
    /\ update_ok \in UpdateOutcomes
    /\ m_op' = [kind |-> "for_directory", clone_ok |-> clone_ok,
                open_ok |-> OpenOutcome, update_ok |-> update_ok]
    /\ m_prev' = ManagerSnapshot
    /\ IF clone_ok
         THEN /\ dir_is_repo' = TRUE
              /\ manager' = "bound"
              /\ m_result' = Ok
       ELSE IF ~OpenOutcome
         THEN \* NoteRepository::open(directory).await.unwrap()
              /\ UNCHANGED <<dir_is_repo, manager>>
              /\ m_result' = Panic
       ELSE IF ~update_ok
         THEN \* repo.update().await.unwrap()
              /\ UNCHANGED <<dir_is_repo, manager>>
              /\ m_result' = Panic
       ELSE /\ UNCHANGED dir_is_repo
            /\ manager' = "bound"
            /\ m_result' = Ok
    /\ UNCHANGED <<debug_assertions, sidebar, note_vars, repository_vars, taglist_vars, remote_reachable, data_file,
                   disk, tag_registry, note_registry, note, load_pc,
                   load_todo, load_acc, clock, saving>>

\* load() is called and runs up to its first await
load ==
    /\ manager = "bound"
    /\ m_result # Panic
    /\ load_pc = "idle"
    /\ m_op' = ManagerCall("load", NoId, TRUE)
    /\ m_prev' = ManagerSnapshot
    /\ m_result' = NoResult
    /\ load_pc' = LoadOrder[1]
    /\ load_todo' = <<>>
    /\ load_acc' = <<>>
    /\ UNCHANGED <<debug_assertions, sidebar, note_vars, repository_vars, taglist_vars, remote_reachable,
                   dir_is_repo, data_file, disk, manager, tag_registry,
                   note_registry, note, clock, saving>>

\* load_data_file: read data.nwty, set the "tag-list" property; setting
\* the OnceCell a second time panics
load_data_file ==
    /\ load_pc = "load_data_file"
    /\ LET read == ReadDataFile(data_file)
       IN  IF read.result # Ok
             THEN UNCHANGED tag_registry /\ LoadFail(read.result)
           ELSE IF tag_registry # Unset
             THEN UNCHANGED tag_registry /\ LoadFail(Panic)
           ELSE /\ tag_registry' = Some(read.data)
                /\ LoadAdvance("load_data_file")
    /\ UNCHANGED <<debug_assertions, sidebar, note_vars, repository_vars, taglist_vars, remote_reachable,
                   dir_is_repo, data_file, disk, manager, note_registry,
                   note, load_todo, load_acc, clock, saving, m_op, m_prev>>

\* the directory as enumerate_children lists it: the md files and data.nwty
DirectoryEntries ==
    LET stems == {i \in Ids : disk[i] # Absent}
        RECURSIVE Listing(_)
        Listing(S) ==
            IF S = {} THEN <<>>
            ELSE LET i == CHOOSE x \in S :
                            \A y \in S : x[1] < y[1] \/ (x[1] = y[1] /\ x[2] <= y[2])
                 IN  <<[stem |-> i, extension |-> "md"]>> \o Listing(S \ {i})
    IN  (IF data_file = MissingDataFile THEN <<>>
         ELSE <<[stem |-> NoId, extension |-> "nwty"]>>) \o Listing(stems)

\* load_notes up to its loop: enumerate the directory, NoteList::new()
load_notes ==
    /\ load_pc = "load_notes"
    /\ load_todo' = DirectoryEntries
    /\ load_acc' = <<>>
    /\ load_pc' = "deserialize"
    /\ UNCHANGED <<debug_assertions, sidebar, note_vars, repository_vars, taglist_vars, remote_reachable,
                   dir_is_repo, data_file, disk, manager, tag_registry,
                   note_registry, note, clock, saving, m_op, m_result, m_prev>>

\* Note::deserialize of the bytes of a file
DeserializeNote(file) ==
    IF file = Absent \/ file[1] = Corrupt THEN [result |-> ErrDeserialize]
    ELSE [result |-> Ok,
          note |-> [title |-> file[1].title, body |-> file[1].body,
                    is_saved |-> TRUE]]

\* NoteList::append: a note whose id is in the list is refused
NoteListAppend(nl, id) == IF id \in Range(nl) THEN nl ELSE Append(nl, id)

\* one turn of the loop of load_notes, or its end: set "note-list"
load_notes_file ==
    /\ load_pc = "deserialize"
    /\ IF load_todo = <<>>
         THEN /\ UNCHANGED <<load_todo, load_acc, note>>
              /\ IF note_registry # Unset
                   THEN UNCHANGED note_registry /\ LoadFail(Panic)
                   ELSE /\ note_registry' = Some(load_acc)
                        /\ LoadAdvance("load_notes")
       ELSE LET file == Head(load_todo)
            IN  IF file.extension # "md"
                  THEN /\ load_todo' = Tail(load_todo)
                       /\ UNCHANGED <<load_acc, note, note_registry,
                                      load_pc, m_result>>
                ELSE LET de == DeserializeNote(disk[file.stem])
                     IN  IF de.result # Ok
                           THEN \* Note::deserialize(&file).await?
                                /\ UNCHANGED <<load_todo, load_acc, note,
                                               note_registry>>
                                /\ LoadFail(de.result)
                           ELSE /\ load_todo' = Tail(load_todo)
                                /\ load_acc' = NoteListAppend(load_acc, file.stem)
                                /\ note' = [note EXCEPT ![file.stem] = Some(de.note)]
                                /\ UNCHANGED <<note_registry, load_pc, m_result>>
    /\ UNCHANGED <<debug_assertions, sidebar, note_vars, repository_vars, taglist_vars, remote_reachable,
                   dir_is_repo, data_file, disk, manager, tag_registry,
                   clock, saving, m_op, m_prev>>

\* a directory, a remote and a build; no NoteManager yet
StartupInit ==
    /\ debug_assertions \in BOOLEAN
    /\ name = [t \in Tags |-> EmptyName]
    /\ handlers = [t \in Tags |-> 0]
    /\ list = <<>>
    /\ name_list = <<>>
    /\ result = NoResult
    /\ op = Call("new", NoTag, NoName)
    /\ prev = [list |-> <<>>, name_list |-> <<>>, name |-> name]
    /\ emitted = <<>>
    /\ observed = <<>>
    /\ mirror = <<>>
    /\ remote_reachable \in BOOLEAN
    /\ dir_is_repo \in BOOLEAN
    /\ data_file \in {MissingDataFile, Unreadable, Unparsable} \cup ValidDataFiles
    /\ disk \in [Ids -> {Absent, Some(Corrupt),
                          Some(NoteBytes(EmptyText, EmptyText))}]
    /\ manager = "unbound"
    /\ tag_registry = Unset
    /\ note_registry = Unset
    /\ note = [i \in Ids |-> NoNote]
    /\ load_pc = "idle"
    /\ load_todo = <<>>
    /\ load_acc = <<>>
    /\ clock = 0
    /\ saving = [i \in Ids |-> Absent]
    /\ m_op = ManagerCall("none", NoId, TRUE)
    /\ m_result = NoResult
    /\ m_prev = ManagerSnapshot
    /\ NoNoteObject
    /\ NoRepository
    /\ NoSidebar

StartupNext ==
    \/ \E clone_ok, update_ok \in BOOLEAN : for_directory(clone_ok, update_ok)
    \/ load
    \/ load_data_file
    \/ load_notes
    \/ load_notes_file

SpecStartup == StartupInit /\ [][StartupNext]_vars

\* =================================================================
\* Properties of the TagList registry
\* =================================================================
Returned == result \notin {NoResult, Panic}

\* the names of the items of l, in order
ItemNames(l, nm) == [i \in 1..Len(l) |-> nm[l[i]]]

\* a tag of the item sequence l bears the name n
HeldBy(l, nm, n) == {l[i] : i \in {j \in 1..Len(l) : nm[l[j]] = n}}

\* C1: after every call that returns, the name index and the item sequence
\* have the same length and the name at index i of the name index is the
\* name of the item at position i.
C1_NameIndexMatchesItems ==
    Returned => name_list = ItemNames(list, name)

\* C2: no two items of the list have the same name and no item has the
\* empty name.
C2_UniqueNonEmptyNames ==
    \A i, j \in 1..Len(list) :
        /\ name[list[i]] # EmptyName
        /\ (i # j => name[list[i]] # name[list[j]])

\* C3: appending a tag whose name is held by an item of the registry fails
\* with DuplicateKey, changes neither the item sequence nor the name index
\* and emits no event.
C3_DuplicateAppendFails ==
    (op.kind = "append" /\ HeldBy(prev.list, prev.name, op.arg) # {})
        => /\ IsDuplicateKey(result)
           /\ list = prev.list
           /\ name_list = prev.name_list
           /\ emitted = <<>>

\* C4: appending a tag whose name is non-empty and registered nowhere puts
\* the tag at the end of the item sequence, its name at the same position
\* of the name index, and emits the one event {previous length, 0, 1}.
C4_AppendPlacesAtEnd ==
    (/\ op.kind = "append"
     /\ op.arg # EmptyName
     /\ HeldBy(prev.list, prev.name, op.arg) = {}
     /\ ~contains_with_name(prev.name_list, op.arg))
        => /\ result = Ok
           /\ list = Append(prev.list, op.tag)
           /\ Len(name_list) >= Len(list)
           /\ name_list[Len(list)] = op.arg
           /\ emitted = <<Event(Len(prev.list), 0, 1)>>

\* C5: the copy of a consumer that only replays the emitted events equals
\* the item sequence after every call that returns.
C5_MirrorEqualsList ==
    Returned => mirror = list

\* C6: removing a tag that is at position p of the item sequence succeeds,
\* takes it out of the item sequence and its name out of the name index,
\* moves every later entry down by one in order, and emits the one event
\* {p, 1, 0}.
C6_RemoveShiftsDown ==
    (op.kind = "remove" /\ get_index_of(prev.list, op.tag) # 0)
        => LET p == get_index_of(prev.list, op.tag)
           IN  /\ result = Ok
               /\ list = [j \in 1..(Len(prev.list) - 1) |->
                            IF j < p THEN prev.list[j] ELSE prev.list[j + 1]]
               /\ name_list = ItemNames(list, name)
               /\ emitted = <<Event(p - 1, 1, 0)>>

\* C7: rename_tag of an item to a name held by a different item fails with
\* DuplicateKey, rename_tag to the empty name fails with InvalidKey; both
\* leave the item sequence, the name index and the names unchanged and
\* emit nothing.
C7_RenameRejected ==
    /\ (op.kind = "rename_tag"
        /\ get_index_of(prev.list, op.tag) # 0
        /\ HeldBy(prev.list, prev.name, op.arg) \ {op.tag} # {})
          => /\ IsDuplicateKey(result)
             /\ list = prev.list /\ name_list = prev.name_list
             /\ name = prev.name /\ emitted = <<>>
    /\ (op.kind = "rename_tag" /\ op.arg = EmptyName)
          => /\ IsInvalidKey(result)
             /\ list = prev.list /\ name_list = prev.name_list
             /\ name = prev.name /\ emitted = <<>>

\* C8: rename_tag of an item to the name it already has returns success and
\* leaves the item sequence, the name index and the name unchanged.
C8_RenameToOwnNameSucceeds ==
    (/\ op.kind = "rename_tag"
     /\ get_index_of(prev.list, op.tag) # 0
     /\ prev.name[op.tag] = op.arg)
        => /\ result = Ok
           /\ list = prev.list /\ name_list = prev.name_list
           /\ name = prev.name

C10_RenameEmitsOneEvent ==
    (op.kind = "rename_tag" /\ result = Ok)
        => emitted = <<Event(get_index_of(prev.list, op.tag) - 1, 1, 1)>>

\* =================================================================
\* Properties of the NoteManager at startup
\* =================================================================
\* load() has returned
LoadReturned == m_op.kind = "load" /\ load_pc = "idle" /\ m_result # NoResult

\* the first load() of the manager
FirstLoad == m_op.kind = "load" /\ m_prev.tag_registry = Unset

\* the stems of the md files Note::deserialize can read
ReadableNotes == {i \in Ids : disk[i] # Absent /\ disk[i] # Some(Corrupt)}

\* C13: when clone fails, the directory opens and update fails,
\* for_directory still returns a NoteManager bound to the directory.
C13_UpdateFailureTolerated ==
    (/\ m_op.kind = "for_directory"
     /\ ~m_op.clone_ok /\ m_op.open_ok /\ ~m_op.update_ok)
        => manager = "bound" /\ m_result = Ok

\* an empty directory, without a repository, and a remote out of reach
EmptyDirectoryNoRemote == ~remote_reachable /\ DirectoryEmpty

\* C14: on an empty directory with an unreachable remote, for_directory
\* and then load neither panic nor fail, and both registries are empty.
C14_FreshStoreWithoutRemote ==
    EmptyDirectoryNoRemote
        => /\ m_result \notin {Panic, ErrDeserialize, ErrDataFile}
           /\ m_op.kind = "for_directory" => manager = "bound"
           /\ LoadReturned
                => /\ tag_registry = Some(DefaultData)
                   /\ note_registry = Some(<<>>)

\* C15: a load over a directory with an md file that does not deserialize
\* returns success, and the note registry is set and holds the notes of
\* all the other md files.
C15_BadNoteSkipped ==
    (/\ FirstLoad /\ LoadReturned
     /\ \E i \in Ids : disk[i] = Some(Corrupt))
        => /\ m_result = Ok
           /\ note_registry # Unset
           /\ Range(note_registry[1]) = ReadableNotes

\* C16: load_notes neither enumerates the directory nor deserializes a
\* note file before the tag registry is set, and the note registry is never
\* set while the tag registry is unset.
C16_TagsBeforeNotes ==
    (\/ load_pc \in {"load_notes", "deserialize"}
     \/ load_todo # <<>> \/ load_acc # <<>>
     \/ \E i \in Ids : note[i] # NoNote
     \/ note_registry # Unset)
        => tag_registry # Unset

\* a load returned success with a note in the registry
C16_Witness ==
    /\ LoadReturned /\ m_result = Ok
    /\ note_registry # Unset /\ Len(note_registry[1]) >= 1
    /\ tag_registry # Unset

\* C17: on the manager's first load, once load_data_file has run over a
\* data.nwty that is missing, unreadable or unparsable, the tag registry is
\* set to an empty registry and load_data_file has returned success.
C17_DataFileNeverFails ==
    (/\ FirstLoad
     /\ load_pc # "load_data_file"
     /\ data_file.kind # "yaml")
        => /\ tag_registry = Some(DefaultData)
           /\ m_result \notin {Panic, ErrDataFile}

\* load returned success although data.nwty does not parse
C17_Witness ==
    /\ LoadReturned /\ m_result = Ok
    /\ data_file = Unparsable
    /\ tag_registry = Some(DefaultData)

\* the non-empty names of a key list, each at its first occurrence
RECURSIVE FirstOccurrences(_)
FirstOccurrences(names) ==
    IF names = <<>> THEN <<>>
    ELSE LET front == SubSeq(names, 1, Len(names) - 1)
             last == names[Len(names)]
         IN  IF last = EmptyName \/ last \in Range(front)
               THEN FirstOccurrences(front)
               ELSE Append(FirstOccurrences(front), last)

\* C18: the registry deserialized from a key list holds, as items and in
\* its name index, the distinct non-empty names of the list in the order
\* of their first occurrence.
C18_DeserializeSkipsBadNames ==
    (tag_registry # Unset /\ data_file.kind = "yaml")
        => LET tl == tag_registry[1]
           IN  /\ tl.name_list = FirstOccurrences(data_file.tag_list)
               /\ ItemNames(tl.list, tl.name) = FirstOccurrences(data_file.tag_list)

\* =================================================================
\* NoteManager: the notes of a loaded manager
\* =================================================================
\* Note::serialize: the metadata, the separator line, the buffer's text
serialize(n) == NoteBytes(n.title, n.body)

\* Note::create_default: empty title and body, not yet on disk
create_default == [title |-> EmptyText, body |-> EmptyText, is_saved |-> FALSE]

\* NoteList::remove and NoteList::get, keyed by the note's id
NoteListRemove(nl, id) == ShiftRemove(nl, id)
NoteListGet(nl, id) == IF id \in Range(nl) THEN Some(id) ELSE NoNote

\* Note::delete: gio's File::delete fails on a file that does not exist
FileDeleted(file, io_ok) == io_ok /\ file # Absent

\* save_note's early return taken for no note
NeedsWrite_Always(n) == TRUE

\* save_note writes unless note.is_saved()
NeedsWrite(n) == ~n.is_saved

\* the manager's state once the step has been taken: an event outside the
\* manager starts the history of the manager's calls afresh
ManagerSnapshotAfter ==
    [note_registry |-> note_registry', tag_registry |-> tag_registry',
     disk |-> disk', note |-> note', saving |-> saving']

\* a manager is bound, loaded and has not panicked
Loaded ==
    /\ manager = "bound"
    /\ note_registry # Unset
    /\ m_result # Panic

\* the system clock read by chrono::Local::now() moves on
Tick ==
    /\ Loaded
    /\ clock < MaxTick
    /\ clock' = clock + 1
    /\ m_op' = ManagerCall("tick", NoId, TRUE)
    /\ m_result' = Ok
    /\ UNCHANGED <<debug_assertions, sidebar, note_vars, repository_vars, taglist_vars, remote_reachable,
                   dir_is_repo, data_file, disk, manager, tag_registry,
                   note_registry, note, load_pc, load_todo, load_acc, saving>>
    /\ m_prev' = ManagerSnapshotAfter

create_note ==
    /\ Loaded
    /\ LET id == generate_unique_file_name(clock)
           nl == note_registry[1]
       IN  /\ m_op' = ManagerCall("create_note", Some(id), TRUE)
           /\ m_prev' = ManagerSnapshot
           \* self.note_list().append(new_note): the outcome is dropped
           /\ note_registry' = Some(NoteListAppend(nl, id))
           /\ note' = IF id \in Range(nl) THEN note
                      ELSE [note EXCEPT ![id] = Some(create_default)]
           /\ m_result' = Ok
    /\ UNCHANGED <<debug_assertions, sidebar, note_vars, repository_vars, taglist_vars, remote_reachable,
                   dir_is_repo, data_file, disk, manager, tag_registry,
                   load_pc, load_todo, load_acc, clock, saving>>

\* io_ok: the outcome of the file system's delete, once it is asked for
delete_note(note_id) ==
    /\ Loaded
    /\ m_prev' = ManagerSnapshot
    /\ LET removed == NoteListRemove(note_registry[1], note_id)
           got == NoteListGet(removed, note_id)
       IN  /\ note_registry' = Some(removed)
           /\ IF got = NoNote
                THEN \* note_list.get(note_id).unwrap()
                     /\ m_op' = ManagerCall("delete_note", Some(note_id), TRUE)
                     /\ m_result' = Panic
                     /\ UNCHANGED disk
              ELSE \E io_ok \in BOOLEAN :
                     /\ m_op' = ManagerCall("delete_note", Some(note_id), io_ok)
                     /\ IF FileDeleted(disk[note_id], io_ok)
                          THEN /\ disk' = [disk EXCEPT ![note_id] = Absent]
                               /\ m_result' = Ok
                          ELSE \* note.delete().unwrap()
                               /\ m_result' = Panic
                               /\ UNCHANGED disk
    /\ UNCHANGED <<debug_assertions, sidebar, note_vars, repository_vars, taglist_vars, remote_reachable,
                   dir_is_repo, data_file, manager, tag_registry, note,
                   load_pc, load_todo, load_acc, clock, saving>>

\* the user changes the text of a note's buffer; the texts a buffer holds
\* are numbered in the order they are typed. The handler Note::constructed
\* connects to the text updates last-modified and nothing else: no code
\* calls set_is_saved(false)
edit_note(id, text) ==
    /\ Loaded
    /\ note[id] # NoNote
    /\ text = note[id][1].body + 1
    /\ note' = [note EXCEPT ![id] = Some([note[id][1] EXCEPT !.body = text])]
    /\ m_op' = ManagerCall("edit_note", Some(id), TRUE)
    /\ m_result' = Ok
    /\ UNCHANGED <<debug_assertions, sidebar, note_vars, repository_vars, taglist_vars, remote_reachable,
                   dir_is_repo, data_file, disk, manager, tag_registry,
                   note_registry, load_pc, load_todo, load_acc, clock, saving>>
    /\ m_prev' = ManagerSnapshotAfter

\* save_note up to the await of replace_contents_async_future; one write
\* is in flight at a time
save_note(id) ==
    /\ Loaded
    /\ note[id] # NoNote
    /\ \A j \in Ids : saving[j] = Absent
    /\ m_op' = ManagerCall("save_note", Some(id), TRUE)
    /\ m_prev' = ManagerSnapshot
    /\ IF NeedsWrite(note[id][1])
         THEN /\ saving' = [saving EXCEPT ![id] = Some(serialize(note[id][1]))]
              /\ m_result' = NoResult
         ELSE /\ UNCHANGED saving
              /\ m_result' = Ok
    /\ UNCHANGED <<debug_assertions, sidebar, note_vars, repository_vars, taglist_vars, remote_reachable,
                   dir_is_repo, data_file, disk, manager, tag_registry,
                   note_registry, note, load_pc, load_todo, load_acc, clock>>

\* save_note from the completion of the write to its return
save_note_written(id, io_ok) ==
    /\ Loaded
    /\ saving[id] # Absent
    /\ m_op' = ManagerCall("save_note_written", Some(id), io_ok)
    /\ m_prev' = ManagerSnapshot
    /\ saving' = [saving EXCEPT ![id] = Absent]
    /\ IF io_ok
         THEN /\ disk' = [disk EXCEPT ![id] = saving[id]]
              /\ note' = [note EXCEPT ![id] = Some([note[id][1] EXCEPT
                                                      !.is_saved = TRUE])]
              /\ m_result' = Ok
         ELSE \* replace_contents_async_future(..).await.unwrap()
              /\ UNCHANGED <<disk, note>>
              /\ m_result' = Panic
    /\ UNCHANGED <<debug_assertions, sidebar, note_vars, repository_vars, taglist_vars, remote_reachable,
                   dir_is_repo, data_file, manager, tag_registry,
                   note_registry, load_pc, load_todo, load_acc, clock>>

ErrWrite == "replace_contents failed"

\* save_all_notes skips no note
NeedsFlush_All(n) == TRUE

\* save_all_notes skips a note that is_saved()
NeedsFlush(n) == ~n.is_saved

\* save_all_notes going on to the next note after a write that failed
WriteFailed_Skipped(d, n, written) ==
    [disk |-> d, note |-> n, written |-> written, result |-> Ok]

\* `replace_contents(..)?`: save_all_notes returns the error of the write
WriteFailed(d, n, written) ==
    [disk |-> d, note |-> n, written |-> written, result |-> ErrWrite]

\* the loop of save_all_notes from the k-th note of the list on; bad is the
\* note whose file cannot be written, if any
RECURSIVE SaveAllFrom(_, _, _, _, _, _)
SaveAllFrom(nl, k, d, n, written, bad) ==
    IF k > Len(nl)
      THEN [disk |-> d, note |-> n, written |-> written, result |-> Ok]
    ELSE LET id == nl[k]
         IN  IF ~NeedsFlush(n[id][1])
               THEN SaveAllFrom(nl, k + 1, d, n, written, bad)
             ELSE IF bad = Some(id)
               THEN WriteFailed(d, n, written)
             ELSE SaveAllFrom(nl, k + 1,
                              [d EXCEPT ![id] = Some(serialize(n[id][1]))],
                              [n EXCEPT ![id] = Some([n[id][1] EXCEPT
                                                        !.is_saved = TRUE])],
                              Append(written, id), bad)

save_all_notes(bad) ==
    /\ Loaded
    /\ bad # NoId => /\ bad[1] \in Range(note_registry[1])
                     /\ NeedsFlush(note[bad[1]][1])
    /\ LET out == SaveAllFrom(note_registry[1], 1, disk, note, <<>>, bad)
       IN  /\ m_op' = [kind |-> "save_all_notes", bad |-> bad,
                       written |-> out.written]
           /\ disk' = out.disk
           /\ note' = out.note
           /\ m_result' = out.result
    /\ m_prev' = ManagerSnapshot
    /\ UNCHANGED <<debug_assertions, sidebar, note_vars, repository_vars, taglist_vars, remote_reachable,
                   dir_is_repo, data_file, manager, tag_registry,
                   note_registry, load_pc, load_todo, load_acc, clock, saving>>

\* the tick a file name was generated at
TickOf(id) == id[1] * TicksPerSecond + id[2]

\* the md stems of a directory listing, in its order
RECURSIVE Stems(_)
Stems(entries) ==
    IF entries = <<>> THEN <<>>
    ELSE IF Head(entries).extension = "md"
      THEN <<Head(entries).stem>> \o Stems(Tail(entries))
    ELSE Stems(Tail(entries))

\* a manager after for_directory and a successful load: the directory's
\* notes were created at earlier ticks of the clock
NotesInit ==
    /\ debug_assertions = FALSE
    /\ name = [t \in Tags |-> EmptyName]
    /\ handlers = [t \in Tags |-> 0]
    /\ list = <<>>
    /\ name_list = <<>>
    /\ result = NoResult
    /\ op = Call("new", NoTag, NoName)
    /\ prev = [list |-> <<>>, name_list |-> <<>>, name |-> name]
    /\ emitted = <<>>
    /\ observed = <<>>
    /\ mirror = <<>>
    /\ remote_reachable = TRUE
    /\ dir_is_repo = TRUE
    /\ data_file = MissingDataFile
    /\ clock \in 0..MaxTick
    /\ disk \in [Ids -> {Absent, Some(NoteBytes(EmptyText, EmptyText))}]
    /\ \A i \in Ids : disk[i] # Absent => TickOf(i) < clock
    /\ manager = "bound"
    /\ tag_registry = Some(DefaultData)
    /\ note_registry = Some(Stems(DirectoryEntries))
    /\ note = [i \in Ids |-> IF disk[i] = Absent THEN NoNote
                             ELSE Some(DeserializeNote(disk[i]).note)]
    /\ load_pc = "idle"
    /\ load_todo = <<>>
    /\ load_acc = <<>>
    /\ saving = [i \in Ids |-> Absent]
    /\ m_op = ManagerCall("load", NoId, TRUE)
    /\ m_result = Ok
    /\ m_prev = ManagerSnapshot
    /\ NoNoteObject
    /\ NoRepository
    /\ NoSidebar

NotesNext ==
    \/ Tick
    \/ create_note
    \/ \E id \in Ids : delete_note(id)
    \/ \E id \in Ids, text \in Bodies : edit_note(id, text)
    \/ \E id \in Ids : save_note(id)
    \/ \E id \in Ids, io_ok \in BOOLEAN : save_note_written(id, io_ok)
    \/ \E bad \in {NoId} \cup {Some(i) : i \in Ids} : save_all_notes(bad)

SpecNotes == NotesInit /\ [][NotesNext]_vars

\* =================================================================
\* Properties of the notes of a loaded manager
\* =================================================================
\* the note the last call of the manager was about
CalledId == m_op.id[1]

\* the note registry as the last call found it
RegistryBefore == m_prev.note_registry[1]

\* C11: delete_note(id) for a note in the registry whose file can be
\* deleted returns success, removes the note from the registry and deletes
\* the file; the file is never left on disk with the registry entry gone.
C11_DeleteRemovesNoteAndFile ==
    (/\ m_op.kind = "delete_note"
     /\ CalledId \in Range(RegistryBefore)
     /\ m_prev.disk[CalledId] # Absent
     /\ m_op.io_ok)
        => /\ m_result = Ok
           /\ note_registry[1] = ShiftRemove(RegistryBefore, CalledId)
           /\ Len(note_registry[1]) = Len(RegistryBefore) - 1
           /\ disk[CalledId] = Absent

\* C12: when the file of a registered note cannot be deleted, delete_note
\* returns an error value instead of panicking, and the registry entry
\* stays removed.
C12_DeleteFailureReported ==
    (/\ m_op.kind = "delete_note"
     /\ CalledId \in Range(RegistryBefore)
     /\ (m_prev.disk[CalledId] = Absent \/ ~m_op.io_ok))
        => /\ m_result \notin {Ok, Panic, NoResult}
           /\ CalledId \notin Range(note_registry[1])

\* C19: a create_note whose generated id is already in the registry (a
\* second call within the tick) fails with DuplicateKey, a create_note at
\* a new tick appends a note with a new id, file names of different ticks
\* differ, and the registry never holds an id twice.
C19_CreateNoteDistinctIds ==
    /\ note_registry # Unset
         => Cardinality(Range(note_registry[1])) = Len(note_registry[1])
    /\ \A t1, t2 \in 0..MaxTick :
         t1 # t2 => generate_unique_file_name(t1) # generate_unique_file_name(t2)
    /\ m_op.kind = "create_note"
         => IF CalledId \in Range(RegistryBefore)
              THEN IsDuplicateKey(m_result)
              ELSE /\ m_result = Ok
                   /\ note_registry[1] = Append(RegistryBefore, CalledId)

\* C20: save_note on a saved note writes nothing and returns success; on a
\* dirty note it hands the note's serialization to the write of the note's
\* own file with the flag still dirty; when the write succeeds exactly that
\* file holds the serialization and the note is saved; and no note goes
\* from dirty to saved but by a successful write of its file, by save_note
\* or by save_all_notes.
C20_SaveNoteWritesThenClears ==
    /\ (m_op.kind = "save_note" /\ m_prev.note[CalledId][1].is_saved)
         => /\ m_result = Ok
            /\ disk = m_prev.disk
            /\ saving = m_prev.saving
            /\ note = m_prev.note
    /\ (m_op.kind = "save_note" /\ ~m_prev.note[CalledId][1].is_saved)
         => /\ saving[CalledId] = Some(serialize(m_prev.note[CalledId][1]))
            /\ disk = m_prev.disk
            /\ ~note[CalledId][1].is_saved
    /\ (m_op.kind = "save_note_written" /\ m_op.io_ok)
         => /\ m_result = Ok
            /\ disk = [m_prev.disk EXCEPT ![CalledId] = m_prev.saving[CalledId]]
            /\ note[CalledId][1].is_saved
    /\ (m_op.kind = "save_note_written" /\ ~m_op.io_ok)
         => /\ disk = m_prev.disk
            /\ note = m_prev.note
    /\ \A i \in Ids :
         (/\ note[i] # NoNote /\ note[i][1].is_saved
          /\ m_prev.note[i] # NoNote /\ ~m_prev.note[i][1].is_saved)
            => \/ /\ m_op = ManagerCall("save_note_written", Some(i), TRUE)
                  /\ disk[i] = m_prev.saving[i]
               \/ /\ m_op.kind = "save_all_notes"
                  /\ i \in Range(m_op.written)
                  /\ disk[i] = Some(serialize(m_prev.note[i][1]))

\* an edited note was written to its file and is saved
C20_Witness ==
    /\ m_op.kind = "save_note_written" /\ m_op.io_ok
    /\ m_result = Ok
    /\ ~m_prev.note[CalledId][1].is_saved
    /\ note[CalledId][1].is_saved
    /\ disk[CalledId] = Some(serialize(note[CalledId][1]))
    /\ note[CalledId][1].body # EmptyText

\* C21: when the write of save_note fails, save_note returns an error
\* value instead of panicking, the note stays dirty and no write of it is
\* left in flight.
C21_SaveFailureReported ==
    (m_op.kind = "save_note_written" /\ ~m_op.io_ok)
        => /\ m_result \notin {Ok, Panic, NoResult}
           /\ ~note[CalledId][1].is_saved
           /\ saving[CalledId] = Absent

\* C22: after save_all_notes returned success every note of the registry
\* is saved, the file of every note that was dirty holds that note's
\* serialization, and the notes that were saved already were not written.
C22_SaveAllFlushesDirtyNotes ==
    (m_op.kind = "save_all_notes" /\ m_result = Ok)
        => \A id \in Range(note_registry[1]) :
             /\ note[id][1].is_saved
             /\ IF m_prev.note[id][1].is_saved
                  THEN /\ id \notin Range(m_op.written)
                       /\ disk[id] = m_prev.disk[id]
                  ELSE /\ id \in Range(m_op.written)
                       /\ disk[id] = Some(serialize(m_prev.note[id][1]))

\* save_all_notes returned success over a saved and a dirty note
C22_Witness ==
    /\ m_op.kind = "save_all_notes" /\ m_result = Ok
    /\ \E id \in Range(note_registry[1]) : m_prev.note[id][1].is_saved
    /\ \E id \in Range(note_registry[1]) :
         /\ ~m_prev.note[id][1].is_saved
         /\ disk[id] = Some(serialize(note[id][1]))
         /\ disk[id] # m_prev.disk[id]

\* =================================================================
\* Note and Metadata: one note, its metadata, its buffer and its file
\* =================================================================
\* a line of a note file: the delimiter ---, a line of text, or a key of
\* the front-matter with a value of the type the key has (wf) or of another
Delimiter == [kind |-> "delimiter", key |-> "", wf |-> TRUE, v |-> 0]
TextLine == [kind |-> "text", key |-> "", wf |-> TRUE, v |-> 0]
Field(key, v) == [kind |-> "field", key |-> key, wf |-> TRUE, v |-> v]
Malformed(key) == [kind |-> "field", key |-> key, wf |-> FALSE, v |-> 0]

Titles == 0..MaxTitle
EmptyTitle == 0
Dates == 0..MaxDate
\* Date::default()
DefaultDate == 0
Texts == SeqUpTo({TextLine, Delimiter}, MaxLines)

\* a bool as serde_yaml writes it
YamlBool(b) == IF b THEN 1 ELSE 0

NewMetadata == [title |-> EmptyTitle, last_modified |-> DefaultDate,
                is_pinned |-> FALSE]

\* Metadata::new(title, modified) of deserialize_from_file
MetadataNew(title, modified) ==
    [title |-> title, last_modified |-> modified, is_pinned |-> FALSE]

\* Note::serialize: serde_yaml's document of imp::Metadata, the separator
\* line, the text of the buffer
NoteSerialize(md, text) ==
    <<Delimiter,
      Field("title", md.title),
      Field("last_modified", md.last_modified),
      Field("is_pinned", YamlBool(md.is_pinned)),
      Delimiter>> \o text

\* Matter::<YAML>::parse: a file whose first line is the delimiter has its
\* front-matter up to the next delimiter line and its content after it
MatterParse(lines) ==
    IF lines = <<>> \/ Head(lines) # Delimiter
      THEN [data |-> <<>>, content |-> lines]
    ELSE LET closing == {k \in 2..Len(lines) : lines[k] = Delimiter}
         IN  IF closing = {}
               THEN [data |-> <<>>, content |-> Tail(lines)]
             ELSE LET k == CHOOSE c \in closing : \A d \in closing : c <= d
                      matter == SubSeq(lines, 2, k - 1)
                  IN  [data |-> IF matter = <<>> THEN <<>> ELSE <<matter>>,
                       content |-> SubSeq(lines, k + 1, Len(lines))]

\* parsed_entity_data.get(key)
PodGet(matter, key) ==
    LET at == {i \in 1..Len(matter) :
                  matter[i].kind = "field" /\ matter[i].key = key}
    IN  IF at = {} THEN <<>> ELSE <<matter[CHOOSE i \in at : TRUE]>>

\* .get(key).map(|t| t.as_string().unwrap()).unwrap_or_default()
PodString(matter, key, default) ==
    LET pod == PodGet(matter, key)
    IN  IF pod = <<>> THEN [result |-> Ok, v |-> default]
        ELSE IF ~pod[1].wf THEN [result |-> Panic, v |-> default]
        ELSE [result |-> Ok, v |-> pod[1].v]

\* Note::deserialize_from_file
deserialize_from_file(lines) ==
    LET parsed == MatterParse(lines)
    IN  IF parsed.data = <<>>
          THEN [result |-> Ok, metadata |-> NewMetadata,
                content |-> parsed.content]
        ELSE LET title == PodString(parsed.data[1], "title", EmptyTitle)
                 modified == PodString(parsed.data[1], "modified", DefaultDate)
             IN  IF title.result # Ok \/ modified.result # Ok
                   THEN [result |-> Panic, metadata |-> NewMetadata,
                         content |-> parsed.content]
                 ELSE [result |-> Ok,
                       metadata |-> MetadataNew(title.v, modified.v),
                       content |-> parsed.content]

\* the note exists and the process has not panicked
Constructed == metadata # Unset /\ n_result # Panic

\* Note::from_file: a new Note object for the file
from_file ==
    /\ n_result # Panic
    /\ file_content # Absent
    /\ n_op' = [kind |-> "from_file"]
    /\ LET de == deserialize_from_file(file_content[1])
       IN  IF de.result # Ok
             THEN /\ n_result' = Panic
                  /\ UNCHANGED <<metadata, content, is_saved>>
             ELSE /\ n_result' = Ok
                  /\ metadata' = Some(de.metadata)
                  /\ content' = Some(de.content)
                  /\ is_saved' = TRUE
    /\ UNCHANGED <<debug_assertions, sidebar, taglist_vars, manager_vars,
                   repository_vars, date_now, file_content>>

\* Note::create_default for a file that does not exist yet
note_create_default ==
    /\ n_result # Panic
    /\ metadata = Unset
    /\ file_content = Absent
    /\ n_op' = [kind |-> "create_default"]
    /\ n_result' = Ok
    /\ metadata' = Some([NewMetadata EXCEPT !.last_modified = date_now])
    /\ content' = Some(<<>>)
    /\ is_saved' = FALSE
    /\ UNCHANGED <<debug_assertions, sidebar, taglist_vars, manager_vars,
                   repository_vars, date_now, file_content>>

\* Metadata::update_last_modified
update_last_modified(md) == [md EXCEPT !.last_modified = date_now]

\* Metadata::set_title: set_property "title"
set_title(title) ==
    /\ Constructed
    /\ n_op' = [kind |-> "set_title"]
    /\ n_result' = Ok
    /\ metadata' = Some(update_last_modified([metadata[1] EXCEPT !.title = title]))
    /\ UNCHANGED <<debug_assertions, sidebar, taglist_vars, manager_vars,
                   repository_vars, content, is_saved, date_now, file_content>>

\* set_property "is-pinned": self.is_pinned.set(is_pinned)
PinnedMetadata(md, is_pinned) == [md EXCEPT !.is_pinned = is_pinned]

\* Metadata::set_is_pinned
set_is_pinned(is_pinned) ==
    /\ Constructed
    /\ n_op' = [kind |-> "set_is_pinned"]
    /\ n_result' = Ok
    /\ metadata' = Some(PinnedMetadata(metadata[1], is_pinned))
    /\ UNCHANGED <<debug_assertions, sidebar, taglist_vars, manager_vars,
                   repository_vars, content, is_saved, date_now, file_content>>

\* the texts one edit makes of a text: a line typed at its end, or all of
\* it deleted
Edits(text) ==
    {Append(text, l) : l \in {TextLine, Delimiter}} \cup {<<>>}

\* the buffer's text changes: the handler connected in Note::constructed
set_text(text) ==
    /\ Constructed
    /\ text # content[1]
    /\ text \in Edits(content[1])
    /\ n_op' = [kind |-> "set_text"]
    /\ n_result' = Ok
    /\ content' = Some(text)
    /\ metadata' = Some(update_last_modified(metadata[1]))
    /\ UNCHANGED <<debug_assertions, sidebar, taglist_vars, manager_vars,
                   repository_vars, is_saved, date_now, file_content>>

\* save_note on the note, its write succeeding
persist ==
    /\ Constructed
    /\ n_op' = [kind |-> "persist"]
    /\ n_result' = Ok
    /\ IF is_saved
         THEN UNCHANGED <<file_content, is_saved>>
         ELSE /\ file_content' = Some(NoteSerialize(metadata[1], content[1]))
              /\ is_saved' = TRUE
    /\ UNCHANGED <<debug_assertions, sidebar, taglist_vars, manager_vars,
                   repository_vars, metadata, content, date_now>>

\* time passes
DateTick ==
    /\ n_result # Panic
    /\ date_now < MaxDate
    /\ date_now' = date_now + 1
    /\ n_op' = [kind |-> "tick"]
    /\ n_result' = Ok
    /\ UNCHANGED <<debug_assertions, sidebar, taglist_vars, manager_vars,
                   repository_vars, metadata, content, is_saved, file_content>>

\* the front-matter a file may hold: each key absent, well-formed or
\* malformed
FrontMatters ==
    {SelectSeq(<<t, m, p>>, LAMBDA l : l # TextLine) :
        t \in {TextLine, Malformed("title")}
              \cup {Field("title", x) : x \in Titles},
        m \in {TextLine, Malformed("modified")}
              \cup {Field("modified", d) : d \in Dates},
        p \in {TextLine, Malformed("is_pinned")}
              \cup {Field("is_pinned", YamlBool(b)) : b \in BOOLEAN}}

\* the note files of a directory: with a front-matter or without one
NoteFiles ==
    {<<Delimiter>> \o fm \o <<Delimiter>> \o text :
        fm \in FrontMatters, text \in {<<>>, <<TextLine>>}}
    \cup {text \in Texts : text = <<>> \/ Head(text) # Delimiter}

\* a file of the directory, and no Note object for it yet
NoteLoadInit ==
    /\ debug_assertions = FALSE
    /\ name = [t \in Tags |-> EmptyName]
    /\ handlers = [t \in Tags |-> 0]
    /\ list = <<>>
    /\ name_list = <<>>
    /\ result = NoResult
    /\ op = Call("new", NoTag, NoName)
    /\ prev = [list |-> <<>>, name_list |-> <<>>, name |-> name]
    /\ emitted = <<>>
    /\ observed = <<>>
    /\ mirror = <<>>
    /\ NoManager
    /\ NoRepository
    /\ NoSidebar
    /\ metadata = Unset
    /\ content = Unset
    /\ is_saved = FALSE
    /\ date_now = 0
    /\ file_content \in {Some(f) : f \in NoteFiles}
    /\ n_op = [kind |-> "none"]
    /\ n_result = NoResult

SpecNoteLoad == NoteLoadInit /\ [][from_file]_vars

\* no file and no Note object yet
NoteInit ==
    /\ debug_assertions = FALSE
    /\ name = [t \in Tags |-> EmptyName]
    /\ handlers = [t \in Tags |-> 0]
    /\ list = <<>>
    /\ name_list = <<>>
    /\ result = NoResult
    /\ op = Call("new", NoTag, NoName)
    /\ prev = [list |-> <<>>, name_list |-> <<>>, name |-> name]
    /\ emitted = <<>>
    /\ observed = <<>>
    /\ mirror = <<>>
    /\ NoManager
    /\ NoRepository
    /\ NoSidebar
    /\ metadata = Unset
    /\ content = Unset
    /\ is_saved = FALSE
    /\ date_now = 0
    /\ file_content = Absent
    /\ n_op = [kind |-> "none"]
    /\ n_result = NoResult

NoteNext ==
    \/ from_file
    \/ note_create_default
    \/ \E title \in Titles : set_title(title)
    \/ \E is_pinned \in BOOLEAN : set_is_pinned(is_pinned)
    \/ \E text \in Texts : set_text(text)
    \/ persist
    \/ DateTick

SpecNote == NoteInit /\ [][NoteNext]_vars

\* -----------------------------------------------------------------
\* properties of a note
\* -----------------------------------------------------------------
\* every value imp::Metadata can hold
Metadatas == [title : Titles, last_modified : Dates, is_pinned : BOOLEAN]

\* C23: after a mutation of the title, of the pinned flag or of the body
\* the note is dirty (is_saved() is false), and after a successful
\* persistence it is saved.
C23_MutationMarksDirty ==
    /\ n_op.kind \in {"set_title", "set_is_pinned", "set_text"} => ~is_saved
    /\ (n_op.kind = "persist" /\ n_result = Ok) => is_saved

\* C24: after the title or the pinned flag was set, last-modified is the
\* current time.
C24_MetadataMutationTouches ==
    n_op.kind \in {"set_title", "set_is_pinned"}
        => metadata[1].last_modified = date_now

\* C25: from_file on a file that holds the serialization of a note gives a
\* note with that note's title, pinned flag and body.
C25_SerializeFromFileRoundTrip ==
    n_op.kind = "from_file"
        => \A md \in Metadatas, text \in Texts :
             file_content = Some(NoteSerialize(md, text))
                 => /\ n_result = Ok
                    /\ metadata[1].title = md.title
                    /\ metadata[1].is_pinned = md.is_pinned
                    /\ content[1] = text

\* C26: from_file on any note file succeeds, and the note's title,
\* last-modified and pinned flag are the file's well-formed title, modified
\* and is_pinned fields, or the default where the file has none.
C26_LoadFallsBackToDefaults ==
    LET parsed == MatterParse(file_content[1])
        \* the value of a well-formed field key of the front-matter, the
        \* default otherwise
        FileValue(key, default) ==
            LET pod == IF parsed.data = <<>> THEN <<>>
                       ELSE PodGet(parsed.data[1], key)
            IN  IF pod = <<>> \/ ~pod[1].wf THEN default ELSE pod[1].v
    IN  n_op.kind = "from_file"
            => /\ n_result = Ok
               /\ metadata # Unset
               /\ metadata[1].title = FileValue("title", EmptyTitle)
               /\ metadata[1].last_modified
                    = FileValue("modified", DefaultDate)
               /\ YamlBool(metadata[1].is_pinned)
                    = FileValue("is_pinned", YamlBool(FALSE))

\* =================================================================
\* Repository: the remote URL check and the calls that run git
\* =================================================================
\* a URL is a sequence of characters, written as tokens: the word git,
\* another word, one of the characters @ : / . and a space
Word == "w"
Git == "git"
\* \w
WordChars == {Word, Git}
\* [\w\.]
HostChars == WordChars \cup {"."}
\* [\w\.@:/\-~]
PathChars == WordChars \cup {".", "@", ":", "/", "-", "~"}

\* the positions k >= from such that u[from..k] is one or more characters
\* of class
RunEnds(u, from, class) ==
    {k \in from..Len(u) : \A j \in from..k : u[j] \in class}

\* RE_VALIDATE_URL matches u from position i on:
\* (git@[\w\.]+)(:(//)?)([\w\.@:/\-~]+)(\.git)(/)?
MatchesAt(u, i) ==
    /\ i + 1 <= Len(u)
    /\ u[i] = Git
    /\ u[i + 1] = "@"
    /\ \E h \in RunEnds(u, i + 2, HostChars) :
         /\ h + 1 <= Len(u)
         /\ u[h + 1] = ":"
         /\ \E s \in {h + 1} \cup
                     (IF h + 3 <= Len(u) /\ u[h + 2] = "/" /\ u[h + 3] = "/"
                        THEN {h + 3} ELSE {}) :
              \E k \in RunEnds(u, s + 1, PathChars) :
                  /\ k + 2 <= Len(u)
                  /\ u[k + 1] = "."
                  /\ u[k + 2] = Git

\* Regex::is_match: a match anywhere in u
RE_VALIDATE_URL(u) == \E i \in 1..Len(u) : MatchesAt(u, i)

\* Repository::validate_remote_url
validate_remote_url(u) ==
    IF u = <<>> THEN FALSE ELSE RE_VALIDATE_URL(u)

RECURSIVE Join(_, _)
\* n words with sep between them
Join(n, sep) == IF n = 1 THEN <<Word>> ELSE <<Word>> \o sep \o Join(n - 1, sep)

\* the remote URLs asked about: the empty one, a lone word, and every
\* combination of a prefix, a user, a host, a separator, a path, a suffix
\* and a trailing slash
Urls ==
    {<<>>, <<Word>>}
    \cup {prefix \o user \o <<"@">> \o Join(host, <<".">>) \o sep
              \o Join(path, <<"/">>) \o suffix \o trailing :
            prefix \in {<<>>, <<" ">>},
            user \in {<<Git>>, <<Word>>},
            host \in 1..MaxSegments,
            sep \in {<<":">>, <<"/">>, <<":", "/", "/">>},
            path \in 1..MaxSegments,
            suffix \in {<<>>, <<".", Git>>},
            trailing \in {<<>>, <<"/">>}}

\* Repository::validate_remote_url is asked about the remote URL
ask_validate_remote_url ==
    /\ r_op.kind = "none"
    /\ r_op' = [kind |-> "validate_remote_url",
                accepted |-> validate_remote_url(remote_url[1])]
    /\ UNCHANGED <<debug_assertions, sidebar, taglist_vars, manager_vars, note_vars,
                   remote_url, calls>>

UrlInit ==
    /\ debug_assertions = FALSE
    /\ name = [t \in Tags |-> EmptyName]
    /\ handlers = [t \in Tags |-> 0]
    /\ list = <<>>
    /\ name_list = <<>>
    /\ result = NoResult
    /\ op = Call("new", NoTag, NoName)
    /\ prev = [list |-> <<>>, name_list |-> <<>>, name |-> name]
    /\ emitted = <<>>
    /\ observed = <<>>
    /\ mirror = <<>>
    /\ NoManager
    /\ NoNoteObject
    /\ remote_url \in {Some(u) : u \in Urls}
    /\ calls = <<>>
    /\ r_op = [kind |-> "none"]
    /\ NoSidebar

SpecUrl == UrlInit /\ [][ask_validate_remote_url]_vars

\* C28: validate_remote_url accepts the URL exactly when the whole of it
\* has the shape user@host, ':' or '/', path, with or without a suffix
\* .git (the suffix is made of characters of a path); it rejects the empty
\* URL.
C28_ValidateAcceptsShorthand ==
    LET u == remote_url[1]
        UserShape == WordChars \cup {".", "-"}
        HostShape == WordChars \cup {".", "-"}
        PathShape == WordChars \cup {".", "-", "~", "/"}
        HasShorthandShape ==
            \E a \in RunEnds(u, 1, UserShape) :
                /\ a + 1 <= Len(u)
                /\ u[a + 1] = "@"
                /\ \E h \in RunEnds(u, a + 2, HostShape) :
                     /\ h + 2 <= Len(u)
                     /\ u[h + 1] \in {":", "/"}
                     /\ u[h + 2] # "/"
                     /\ Len(u) \in RunEnds(u, h + 2, PathShape)
    IN  r_op.kind = "validate_remote_url"
            => /\ r_op.accepted <=> HasShorthandShape
               /\ u = <<>> => ~r_op.accepted

\* -----------------------------------------------------------------
\* the calls of a Repository
\* -----------------------------------------------------------------
Ops == {"clone", "fetch", "push", "commit", "merge"}

\* the error wrapper::<op> returns when git fails
ErrGit(o) ==
    [clone |-> "clone failed", fetch |-> "fetch failed",
     push |-> "push failed", commit |-> "commit failed",
     merge |-> "merge failed"][o]

\* what the closure handed to run_async returns
WorkResults(o) == {Ok, ErrGit(o)}

\* the threads of the process
CallerThread == "caller"
WorkerThread == "worker"
NoThread == "none"

\* thread::spawn(move || ..): the closure runs on a thread of its own
RunsOn == WorkerThread

\* `receiver.await.unwrap()?; Ok(())` with the received error dropped
RunAsyncReturn_Discard(res) == Ok

\* `receiver.await.unwrap()?; Ok(())`: the received error is returned,
\* success is returned as success
RunAsyncReturn(res) == IF res = Ok THEN Ok ELSE res

\* the calls whose git operation is running: dispatched, and the closure
\* has not ended
InFlight == {c \in 1..Len(calls) : calls[c].pc = "spawned"}

\* the future of the call has not been dropped: the receiver is alive
Awaited(call) == call.dropped_at = "none"

\* the spawned thread runs the closure only while the call is awaited
WorkRuns_WhileAwaited(call) == Awaited(call)

\* thread::spawn(move || { let res = f(); .. }): the thread is detached and
\* runs the closure whatever becomes of the receiver
WorkRuns(call) == TRUE

\* clone, push, commit, fetch or merge is called: run_async makes the
\* channel and spawns the thread, and the call awaits the receiver
start(o) ==
    /\ Len(calls) < MaxCalls
    /\ calls' = Append(calls, [op |-> o, pc |-> "spawned", thread |-> NoThread,
                               work |-> NoResult, channel |-> <<>>,
                               sent |-> 0, returned |-> NoResult,
                               worker |-> "running", dropped_at |-> "none"])
    /\ r_op' = [kind |-> "start", call |-> Len(calls) + 1]
    /\ UNCHANGED <<debug_assertions, sidebar, taglist_vars, manager_vars, note_vars,
                   remote_url>>

\* the spawned thread runs the closure: `let res = f();`
work(c, res) ==
    /\ c \in 1..Len(calls)
    /\ calls[c].pc = "spawned"
    /\ WorkRuns(calls[c])
    /\ res \in WorkResults(calls[c].op)
    /\ calls' = [calls EXCEPT ![c].pc = "worked", ![c].thread = RunsOn,
                              ![c].work = res]
    /\ r_op' = [kind |-> "work", call |-> c]
    /\ UNCHANGED <<debug_assertions, sidebar, taglist_vars, manager_vars, note_vars,
                   remote_url>>

\* the closure panics on the spawned thread: the thread unwinds and the
\* sender is dropped with nothing sent
work_panics(c) ==
    /\ c \in 1..Len(calls)
    /\ calls[c].pc = "spawned"
    /\ WorkRuns(calls[c])
    /\ calls' = [calls EXCEPT ![c].pc = "unwound", ![c].thread = RunsOn,
                              ![c].work = Panic, ![c].worker = "panicked"]
    /\ r_op' = [kind |-> "work_panics", call |-> c]
    /\ UNCHANGED <<debug_assertions, sidebar, taglist_vars, manager_vars, note_vars,
                   remote_url>>

\* the spawned thread sends the result: `sender.send(res).unwrap();`
\* send returns Err(res) when the receiver is gone, and unwrap panics
send(c) ==
    /\ c \in 1..Len(calls)
    /\ calls[c].pc = "worked"
    /\ IF Awaited(calls[c])
         THEN calls' = [calls EXCEPT ![c].pc = "sent",
                                     ![c].channel = <<calls[c].work>>,
                                     ![c].sent = @ + 1,
                                     ![c].worker = "exited"]
         ELSE calls' = [calls EXCEPT ![c].pc = "discarded",
                                     ![c].worker = "panicked"]
    /\ r_op' = [kind |-> "send", call |-> c]
    /\ UNCHANGED <<debug_assertions, sidebar, taglist_vars, manager_vars, note_vars,
                   remote_url>>

\* the awaiting call is resumed: `receiver.await.unwrap()?; Ok(())`. The
\* receiver resolves to the result sent, or to Err(Canceled) when the
\* sender was dropped, and then unwrap panics in the caller
receive(c) ==
    /\ c \in 1..Len(calls)
    /\ calls[c].pc \in {"sent", "unwound"}
    /\ Awaited(calls[c])
    /\ IF calls[c].pc = "sent"
         THEN calls' = [calls EXCEPT
                          ![c].pc = "done", ![c].channel = <<>>,
                          ![c].returned = RunAsyncReturn(calls[c].channel[1])]
         ELSE calls' = [calls EXCEPT ![c].pc = "done", ![c].returned = Panic]
    /\ r_op' = [kind |-> "receive", call |-> c]
    /\ UNCHANGED <<debug_assertions, sidebar, taglist_vars, manager_vars, note_vars,
                   remote_url>>

\* the caller drops the future of the call before it has returned: the
\* receiver is dropped, and a result waiting in the channel with it
drop_future(c) ==
    /\ c \in 1..Len(calls)
    /\ Awaited(calls[c])
    /\ calls[c].pc \in {"spawned", "worked", "sent", "unwound"}
    /\ calls' = [calls EXCEPT ![c].dropped_at = calls[c].pc,
                              ![c].channel = <<>>]
    /\ r_op' = [kind |-> "drop_future", call |-> c]
    /\ UNCHANGED <<debug_assertions, sidebar, taglist_vars, manager_vars, note_vars,
                   remote_url>>

\* the remote URLs a clone is asked for: the empty one, one that
\* validate_remote_url accepts and one that it rejects
CloneUrls ==
    {<<>>,
     <<Git, "@", Word, ":", Word, ".", Git>>,
     <<Word, ":", "/", "/", Word>>}

RepositoryInit ==
    /\ debug_assertions = FALSE
    /\ name = [t \in Tags |-> EmptyName]
    /\ handlers = [t \in Tags |-> 0]
    /\ list = <<>>
    /\ name_list = <<>>
    /\ result = NoResult
    /\ op = Call("new", NoTag, NoName)
    /\ prev = [list |-> <<>>, name_list |-> <<>>, name |-> name]
    /\ emitted = <<>>
    /\ observed = <<>>
    /\ mirror = <<>>
    /\ NoManager
    /\ NoNoteObject
    /\ remote_url \in {Some(u) : u \in CloneUrls}
    /\ calls = <<>>
    /\ r_op = [kind |-> "none"]
    /\ NoSidebar

RepositoryNext ==
    \/ \E o \in Ops : start(o)
    \/ \E c \in 1..MaxCalls : \E res \in UNION {WorkResults(o) : o \in Ops} :
          work(c, res)
    \/ \E c \in 1..MaxCalls : send(c)
    \/ \E c \in 1..MaxCalls : receive(c)

SpecRepository == RepositoryInit /\ [][RepositoryNext]_vars

\* the steps of the spawned thread of call c
WorkerStep(c) ==
    \/ \E res \in UNION {WorkResults(o) : o \in Ops} : work(c, res)
    \/ work_panics(c)
    \/ send(c)

\* up to MaxRuns calls followed to their end, with closures that panic and
\* futures that are dropped
RunAsyncNext ==
    \/ \E o \in Ops : Len(calls) < MaxRuns /\ start(o)
    \/ \E c \in 1..MaxRuns : \E res \in UNION {WorkResults(o) : o \in Ops} :
          work(c, res)
    \/ \E c \in 1..MaxRuns : work_panics(c)
    \/ \E c \in 1..MaxRuns : send(c)
    \/ \E c \in 1..MaxRuns : receive(c)
    \/ \E c \in 1..MaxRuns : drop_future(c)

\* a spawned thread is scheduled until it ends
SpecRunAsync ==
    /\ RepositoryInit
    /\ [][RunAsyncNext]_vars
    /\ \A c \in 1..MaxRuns : WF_vars(WorkerStep(c))

\* C27: a clone whose remote URL validate_remote_url rejects has returned
\* InvalidRemoteUrl and no thread ran wrapper::clone for it.
C27_CloneRejectsInvalidUrl ==
    \A c \in 1..Len(calls) :
        (calls[c].op = "clone" /\ ~validate_remote_url(remote_url[1]))
            => /\ calls[c].pc = "done"
               /\ calls[c].returned \notin {Ok, NoResult}
               /\ calls[c].thread = NoThread
               /\ calls[c].work = NoResult

\* C29: the closure of a call runs on the worker thread and never on the
\* caller's, its result is sent at most once, and an awaiting call whose
\* closure returned is resumed only after the result was sent exactly once
\* and returns what the closure returned: Ok for Ok, the closure's error
\* otherwise.
C29_WorkerResultDeliveredOnce ==
    \A c \in 1..Len(calls) :
        /\ calls[c].thread # CallerThread
        /\ calls[c].sent <= 1
        /\ calls[c].work # NoResult => calls[c].thread = WorkerThread
        /\ (calls[c].pc = "done" /\ calls[c].work \in WorkResults(calls[c].op))
              => /\ calls[c].thread = WorkerThread
                 /\ calls[c].sent = 1
                 /\ calls[c].returned = calls[c].work
        /\ calls[c].returned \in WorkResults(calls[c].op)
              => calls[c].returned = calls[c].work

\* two calls have returned, one with success and one with the error of
\* its closure
C29_Witness ==
    /\ r_op.kind = "receive"
    /\ \E c \in 1..Len(calls) :
         calls[c].pc = "done" /\ calls[c].returned = Ok
    /\ \E c \in 1..Len(calls) :
         calls[c].pc = "done" /\ calls[c].returned = ErrGit(calls[c].op)

\* C30: at most one call of the Repository is in flight.
C30_OneCallInFlight == Cardinality(InFlight) <= 1

\* C31: the closure of every dispatched call ends, returning or
\* panicking, also when the future of the call was dropped; and no step
\* takes a call out of its git operation except the end of its closure.
C31_DispatchedWorkRunsToEnd ==
    /\ \A c \in 1..MaxRuns :
          (Len(calls) >= c) ~> (Len(calls) >= c /\ calls[c].work # NoResult)
    /\ [][\A c \in 1..Len(calls) :
             (calls[c].pc = "spawned" /\ calls'[c].pc # "spawned")
                 => /\ calls'[c].pc \in {"worked", "unwound"}
                    /\ calls'[c].work # NoResult
                    /\ calls'[c].thread = WorkerThread]_vars

\* the closure of a call returned after the future of the call was
\* dropped
C31_Witness ==
    \E c \in 1..Len(calls) :
        /\ calls[c].dropped_at = "spawned"
        /\ calls[c].work \in WorkResults(calls[c].op)

\* C33: a call that was resumed has a result, an error value when the
\* thread ended without sending one; the caller does not panic.
C33_CallerResumedWithValue ==
    \A c \in 1..Len(calls) :
        calls[c].pc = "done" => calls[c].returned \notin {NoResult, Panic}

\* C34: the thread of a call whose future was dropped while the closure
\* was running, and whose closure returned, does not panic.
C34_DroppedCallWorkerExits ==
    \A c \in 1..Len(calls) :
        (calls[c].dropped_at = "spawned"
            /\ calls[c].work \in WorkResults(calls[c].op))
            => calls[c].worker # "panicked"

\* C35: when remove returned an error, the item sequence and the name
\* index are what they were before the call and no event was emitted.
C35_FailedRemoveChangesNothing ==
    (op.kind = "remove" /\ result \notin {Ok, Panic, NoResult})
        => /\ list = prev.list
           /\ name_list = prev.name_list
           /\ emitted = <<>>

\* C36: when the write of a note's file fails during save_all_notes, the
\* call returns that error; every note the call marked saved was written
\* with its serialization, and the failing note and the notes after it in
\* the list are as they were: dirty if they were dirty, their files
\* untouched.
C36_SaveAllStopsAtFailure ==
    (m_op.kind = "save_all_notes" /\ m_op.bad # NoId)
        => LET nl == note_registry[1]
               at == CHOOSE k \in 1..Len(nl) : nl[k] = m_op.bad[1]
           IN  /\ m_result = ErrWrite
               /\ \A k \in 1..Len(nl) :
                    LET id == nl[k]
                    IN  /\ (note[id][1].is_saved /\ ~m_prev.note[id][1].is_saved)
                            => /\ k < at
                               /\ id \in Range(m_op.written)
                               /\ disk[id] = Some(serialize(note[id][1]))
                        /\ k >= at
                            => /\ note[id] = m_prev.note[id]
                               /\ disk[id] = m_prev.disk[id]
               /\ ~note[m_op.bad[1]][1].is_saved

\* save_all_notes wrote a first dirty note and failed at a second one
C36_Witness ==
    /\ m_op.kind = "save_all_notes" /\ m_op.bad # NoId
    /\ m_result = ErrWrite
    /\ Len(m_op.written) = 1
    /\ note[m_op.written[1]][1].is_saved
    /\ ~note[m_op.bad[1]][1].is_saved

\* C32: when save_note has written a note's file and returned, and the
\* note is_saved(), its file holds the serialization of the note as it is
\* now, whatever happened to the note while the write was in flight.
C32_SavedMeansFileCurrent ==
    (m_op.kind = "save_note_written" /\ m_op.io_ok /\ note[CalledId] # NoNote)
        => (note[CalledId][1].is_saved
               => disk[CalledId] = Some(serialize(note[CalledId][1])))

\* =================================================================
\* the data file of a registry built by append, remove and rename_tag
\* =================================================================
\* NoteManager::save_data_file: Serialize for TagList writes the name index
\* as a sequence; `replace_contents(..)?` returns the error of the write
save_data_file(io_ok) ==
    /\ result # Panic
    /\ m_op.kind = "none"
    /\ m_op' = ManagerCall("save_data_file", NoId, io_ok)
    /\ IF io_ok
         THEN /\ data_file' = DataYaml(name_list)
              /\ m_result' = Ok
         ELSE /\ UNCHANGED data_file
              /\ m_result' = ErrWrite
    /\ UNCHANGED <<debug_assertions, sidebar, note_vars, repository_vars, taglist_vars,
                   remote_reachable, dir_is_repo, disk, manager, tag_registry,
                   note_registry, note, load_pc, load_todo, load_acc, clock,
                   saving, m_prev>>

\* load_data_file of a new manager on the directory, once the file was saved
load_saved_data_file ==
    /\ m_op.kind = "save_data_file"
    /\ m_result = Ok
    /\ LET read == ReadDataFile(data_file)
       IN  /\ tag_registry' = Some(read.data)
           /\ m_result' = read.result
    /\ m_op' = ManagerCall("load_data_file", NoId, TRUE)
    /\ UNCHANGED <<debug_assertions, sidebar, note_vars, repository_vars, taglist_vars,
                   remote_reachable, dir_is_repo, data_file, disk, manager,
                   note_registry, note, load_pc, load_todo, load_acc, clock,
                   saving, m_prev>>

\* the registry is changed until it is saved
DataNext ==
    \/ m_op.kind = "none" /\ Next
    \/ \E io_ok \in BOOLEAN : save_data_file(io_ok)
    \/ load_saved_data_file

SpecData == Init /\ [][DataNext]_vars

\* C37: the registry load_data_file builds from the file save_data_file
\* wrote has the names of the saved registry's items, in their order, and
\* the saved registry's name index.
C37_DataFileRoundTrip ==
    (m_op.kind = "load_data_file" /\ tag_registry # Unset)
        => /\ m_result = Ok
           /\ ItemNames(tag_registry[1].list, tag_registry[1].name)
                = ItemNames(list, name)
           /\ tag_registry[1].name_list = name_list

\* =================================================================
\* Sidebar: the sorter of the note list
\* =================================================================
\* gtk::Ordering
Smaller == "Smaller"
Equal == "Equal"
Larger == "Larger"

\* Ord::cmp of two dates, as a gtk::Ordering
DateCmp(x, y) == IF x < y THEN Smaller ELSE IF x = y THEN Equal ELSE Larger

\* the closure with note_1.last_modified().cmp(&note_2.last_modified())
compare_OldestFirst(note_1, note_2) ==
    IF note_1.is_pinned = note_2.is_pinned
      THEN DateCmp(note_1.last_modified, note_2.last_modified)
    ELSE IF note_1.is_pinned /\ ~note_2.is_pinned THEN Smaller
    ELSE Larger

\* the closure of the CustomSorter, on the metadata of two notes
compare(note_1, note_2) ==
    IF note_1.is_pinned = note_2.is_pinned
      THEN DateCmp(note_2.last_modified, note_1.last_modified)
    ELSE IF note_1.is_pinned /\ ~note_2.is_pinned THEN Smaller
    ELSE Larger

\* how many notes the sorter is given
NumSorted == 3

\* the SortListModel asks the sorter about the pairs of notes of the list
sort ==
    /\ sidebar # <<>>
    /\ sidebar[1].cmp = <<>>
    /\ sidebar' = Some([sidebar[1] EXCEPT !.cmp =
                          [i \in 1..NumSorted |->
                             [j \in 1..NumSorted |->
                                compare(sidebar[1].notes[i],
                                        sidebar[1].notes[j])]]])
    /\ UNCHANGED <<debug_assertions, taglist_vars, manager_vars, note_vars,
                   repository_vars>>

\* Sidebar::set_note_list with a list of NumSorted notes
SidebarInit ==
    /\ debug_assertions = FALSE
    /\ name = [t \in Tags |-> EmptyName]
    /\ handlers = [t \in Tags |-> 0]
    /\ list = <<>>
    /\ name_list = <<>>
    /\ result = NoResult
    /\ op = Call("new", NoTag, NoName)
    /\ prev = [list |-> <<>>, name_list |-> <<>>, name |-> name]
    /\ emitted = <<>>
    /\ observed = <<>>
    /\ mirror = <<>>
    /\ NoManager
    /\ NoNoteObject
    /\ NoRepository
    /\ sidebar \in {Some([notes |-> ns, cmp |-> <<>>]) :
                      ns \in [1..NumSorted -> Metadatas]}

SpecSidebar == SidebarInit /\ [][sort]_vars

\* C38: the sorter puts a pinned note before an unpinned one and, of two
\* notes with the same pinned flag, the one modified later first; what it
\* says of (a, b) is the reverse of what it says of (b, a); and it is
\* transitive.
C38_SorterConsistent ==
    (sidebar # <<>> /\ sidebar[1].cmp # <<>>)
        => LET n == sidebar[1].notes
               cmp == sidebar[1].cmp
               Reverse(o) == IF o = Smaller THEN Larger
                             ELSE IF o = Larger THEN Smaller ELSE Equal
           IN  \A i, j \in 1..NumSorted :
                  /\ (n[i].is_pinned /\ ~n[j].is_pinned) => cmp[i][j] = Smaller
                  /\ (n[i].is_pinned = n[j].is_pinned
                        /\ n[i].last_modified > n[j].last_modified)
                       => cmp[i][j] = Smaller
                  /\ cmp[i][j] = Reverse(cmp[j][i])
                  /\ \A k \in 1..NumSorted :
                       /\ (cmp[i][j] = Smaller /\ cmp[j][k] = Smaller)
                            => cmp[i][k] = Smaller
                       /\ (cmp[i][j] = Equal /\ cmp[j][k] = Equal)
                            => cmp[i][k] = Equal
                       /\ (cmp[i][j] # Larger /\ cmp[j][k] # Larger)
                            => cmp[i][k] # Larger

\* the sorter was asked about a pinned note, an unpinned note modified
\* later, and another unpinned note modified earlier
C38_Witness ==
    /\ sidebar # <<>>
    /\ sidebar[1].cmp # <<>>
    /\ LET n == sidebar[1].notes
       IN  /\ n[1].is_pinned /\ ~n[2].is_pinned /\ ~n[3].is_pinned
           /\ n[2].last_modified > n[1].last_modified
           /\ n[2].last_modified > n[3].last_modified
           /\ sidebar[1].cmp[2][3] = Smaller
           /\ sidebar[1].cmp[1][2] = Smaller

====
